---- MODULE Spec2Model ----
(***************************************************************************)
(* Model of the two utilities of terraform-aws-org-new-account-delete-     *)
(* default-vpcs:                                                           *)
(*   src/src/delete_default_vpc.py  (delete the default VPC of every       *)
(*                                   region, with its dependent resources) *)
(*   src/scripts/create_default_vpc/create_default_vpc.py                  *)
(*                                  (create a default VPC where missing)   *)
(* The AWS account is the variable vpcs.  Every API call may raise; the    *)
(* number of raised calls in one behaviour is capped by budget.            *)
(***************************************************************************)
EXTENDS Integers, Sequences, FiniteSets, TLC

VARIABLES
    utility,         \* which entry point runs: "delete", "create", "del_vpc_all"
    DRY_RUN_ENV,     \* delete: the environment variable DRY_RUN
    DRY_RUN,         \* delete: module constant DRY_RUN; create: --dry-run
    dry_errors,      \* EC2 answers a call that has DryRun set with an error
    MAX_WORKERS,     \* delete: env MAX_WORKERS; create: --max-workers
    vpcs,            \* the account: VPC id -> VPC record
    vpcs0,           \* the account when the current run started
    calls,           \* mutating API calls issued in the current run
    futures,         \* the tasks handed to the executor, in submission order
    mpc,             \* position of the main thread
    ridx,            \* index of the region the main loop is at
    vpc_ids,         \* VPC ids of the current region not yet submitted
    exception_list,  \* concurrently_delete_vpcs' exception_list
    listing,         \* per region: what the listing of this run returned
    result,          \* how main ended
    run,             \* number of the current invocation
    history,         \* how the earlier invocations ended
    budget           \* API calls that may still raise

vars == <<utility, DRY_RUN_ENV, DRY_RUN, dry_errors, MAX_WORKERS, vpcs, vpcs0, calls, futures, mpc, ridx,
          vpc_ids, exception_list, listing, result, run, history, budget>>

----------------------------------------------------------------------------
(* Bounds *)

NRegions == 2
MaxPool == 2
MaxFailures == 1
MaxRuns == 2

Regions == 1..NRegions

----------------------------------------------------------------------------
(* The account: VPCs and their dependent resources *)

VpcNames == <<"dflt", "cust">>
VpcIds == Regions \X {"dflt", "cust"}
NoVpc == <<0, "none">>

IgwOrder == <<"igw">>
SubnetOrder == <<"sub_az", "sub_custom">>
RtbOrder == <<"rtb_main", "rtb_custom", "rtb_bare">>
AclOrder == <<"acl_default", "acl_custom">>
SgOrder == <<"sg_default", "sg_custom">>

default_for_az(sub) == sub = "sub_az"
is_default(acl) == acl = "acl_default"
group_name(sg) == IF sg = "sg_default" THEN "default" ELSE "custom"
associations_attribute(rtb) ==
    CASE rtb = "rtb_main" -> <<[Main |-> TRUE]>>
      [] rtb = "rtb_custom" -> <<[Main |-> FALSE]>>
      [] OTHER -> <<>>

Absent == [exists |-> FALSE, isDefault |-> FALSE, igws |-> {}, subnets |-> {},
           rtbs |-> {}, acls |-> {}, sgs |-> {}]

\* the default VPC as AWS creates it
LayoutStd == [exists |-> TRUE, isDefault |-> TRUE, igws |-> {"igw"},
              subnets |-> {"sub_az"}, rtbs |-> {"rtb_main"},
              acls |-> {"acl_default"}, sgs |-> {"sg_default"}]

\* a default VPC to which the account's owner has added resources
LayoutFull == [exists |-> TRUE, isDefault |-> TRUE, igws |-> {"igw"},
               subnets |-> {"sub_az", "sub_custom"},
               rtbs |-> {"rtb_main", "rtb_custom"},
               acls |-> {"acl_default", "acl_custom"},
               sgs |-> {"sg_default", "sg_custom"}]

\* a default VPC whose route tables carry no main association
LayoutNoMain == [LayoutStd EXCEPT !.rtbs = {"rtb_custom"},
                                  !.sgs = {"sg_default", "sg_custom"}]

LayoutCustom == [LayoutStd EXCEPT !.isDefault = FALSE]

Listed(order, set) == SelectSeq(order, LAMBDA x : x \in set)

----------------------------------------------------------------------------
(* Error strings (delete utility) *)

\* Account/Region/Method[/Error]/Exception text, as a record
convert_exception_to_string(region, method_name, msg) ==
    [region |-> region, method |-> method_name, msg |-> msg,
     vpc |-> NoVpc, inner |-> <<>>]

process_exception(vpc, method_name) ==
    convert_exception_to_string(vpc[1], method_name, "")

\* str(exc) of the DeleteVPCError del_vpc_all raises: the joined step errors
DeleteVPCErrorStr(vpc, errs) ==
    [region |-> vpc[1], method |-> "del_vpc_all", msg |-> "Exceptions for",
     vpc |-> vpc, inner |-> errs]

\* str(exc) of an exception that left del_vpc_all before its first step
LoadErrorStr(vpc) ==
    [region |-> vpc[1], method |-> "del_vpc_all", msg |-> "ClientError",
     vpc |-> vpc, inner |-> <<>>]

ListErrorMsg == "Error: Error getting vpc resource"
SubmitErrorMsg == "Error: Exception submitting del_vpc_all executor"

----------------------------------------------------------------------------
(* The API calls of each teardown step, in the order the step issues them *)

Call(kind, res, op) == [kind |-> kind, res |-> res, op |-> op]
Describe(kind) == Call(kind, "all", "describe")
Mutating(c) == c.op # "describe"

DeleteCalls(kind, seq) == [i \in 1..Len(seq) |-> Call(kind, seq[i], "delete")]

\* os.environ.get("DRY_RUN", "true").lower() == "true"
Lower(str) ==
    CASE str = "TRUE" -> "true"
      [] str = "False" -> "false"
      [] OTHER -> str
ParseDryRun(env) == Lower(IF env = "<unset>" THEN "true" ELSE env) = "true"

\* the DryRun argument every mutating call of the delete utility is given
DryRunArgLive == FALSE
DryRunArg == DRY_RUN

\* del_igw: detach and delete every internet gateway of the VPC
IgwCalls(v) ==
    LET s == Listed(IgwOrder, v.igws)
    IN  <<Describe("igw")>> \o
        [i \in 1..(2 * Len(s)) |->
            IF i % 2 = 1 THEN Call("igw", s[(i + 1) \div 2], "detach")
                         ELSE Call("igw", s[i \div 2], "delete")]

\* del_sub: delete the subnets that are default for their AZ
SubCalls(v) ==
    <<Describe("subnet")>> \o
    DeleteCalls("subnet",
                SelectSeq(Listed(SubnetOrder, v.subnets), default_for_az))

\* del_rtb's loop: todo is what is left of the listing the loop iterates,
\* current the route tables a new listing returns
RECURSIVE DelRtbLoop(_, _, _)
DelRtbLoop(todo, current, dry) ==
    IF todo = <<>> THEN [calls |-> <<>>, raised |-> FALSE]
    ELSE
      LET rtb == Head(todo)
          now == Listed(RtbOrder, current)
          assoc_attr == [i \in 1..Len(now) |-> associations_attribute(now[i])]
      IN  IF \E i \in 1..Len(now) : assoc_attr[i] = <<>>
          THEN \* rtb_ass[0] raises IndexError
               [calls |-> <<Describe("rtb")>>, raised |-> TRUE]
          ELSE IF \E i \in 1..Len(now) : assoc_attr[i][1].Main
          THEN LET rest == DelRtbLoop(Tail(todo), current, dry)
               IN  [calls |-> <<Describe("rtb")>> \o rest.calls,
                    raised |-> rest.raised]
          ELSE LET rest == DelRtbLoop(Tail(todo),
                                      IF dry THEN current ELSE current \ {rtb},
                                      dry)
               IN  [calls |-> <<Describe("rtb"), Call("rtb", rtb, "delete")>>
                                \o rest.calls,
                    raised |-> rest.raised]

RtbRun(v) == DelRtbLoop(Listed(RtbOrder, v.rtbs), v.rtbs, DryRunArg)
RtbCalls(v) == <<Describe("rtb")>> \o RtbRun(v).calls

\* del_acl: delete every network ACL but the default one
AclCalls(v) ==
    <<Describe("acl")>> \o
    DeleteCalls("acl", SelectSeq(Listed(AclOrder, v.acls),
                                 LAMBDA a : ~is_default(a)))

SgpCallsAll(v) ==
    <<Describe("sg")>> \o DeleteCalls("sg", Listed(SgOrder, v.sgs))
\* del_sgp: delete every security group but the one named default
SgpCalls(v) ==
    <<Describe("sg")>> \o
    DeleteCalls("sg", SelectSeq(Listed(SgOrder, v.sgs),
                                LAMBDA g : group_name(g) # "default"))

VpcCallsNone(v) == <<>>
\* del_vpc: delete the VPC
VpcCalls(v) == <<Call("vpc", "vpc", "delete")>>

\* what a mutating call that returned did to the VPC it was issued on
Effect(v, c) ==
    CASE c.op = "detach" -> [v EXCEPT !.igws = @ \ {c.res}]
      [] c.op = "delete" /\ c.kind = "subnet" -> [v EXCEPT !.subnets = @ \ {c.res}]
      [] c.op = "delete" /\ c.kind = "rtb" -> [v EXCEPT !.rtbs = @ \ {c.res}]
      [] c.op = "delete" /\ c.kind = "acl" -> [v EXCEPT !.acls = @ \ {c.res}]
      [] c.op = "delete" /\ c.kind = "sg" -> [v EXCEPT !.sgs = @ \ {c.res}]
      [] c.op = "delete" /\ c.kind = "vpc" -> Absent
      [] OTHER -> v

RECURSIVE ApplyAll(_, _)
ApplyAll(v, cs) == IF cs = <<>> THEN v ELSE ApplyAll(Effect(v, Head(cs)), Tail(cs))

----------------------------------------------------------------------------
(* Tasks and the worker pool *)

StepOrderSwapped == <<"del_igw", "del_sub", "del_rtb", "del_acl", "del_vpc", "del_sgp">>
\* del_vpc_all's order of operation
StepOrder == <<"del_igw", "del_sub", "del_rtb", "del_acl", "del_sgp", "del_vpc">>

StepIndex(name) == CHOOSE i \in 1..Len(StepOrder) : StepOrder[i] = name

NextPc(name) ==
    IF StepIndex(name) = Len(StepOrder) THEN "end"
    ELSE StepOrder[StepIndex(name) + 1]

\* where del_vpc_all goes after a step: the except clause falls through
AfterStepAbort(name, failed) == IF failed THEN "end" ELSE NextPc(name)
AfterStep(name, failed) == NextPc(name)

NewTask(region, vpc, pc) ==
    [region |-> region, vpc |-> vpc, st |-> "pending", pc |-> pc,
     errs |-> <<>>, attempted |-> <<>>, raised |-> {}, exc |-> "none"]

Tasks == DOMAIN futures
Running == {t \in Tasks : futures[t].st = "running"}
AllDone == \A t \in Tasks : futures[t].st = "done"

\* ThreadPoolExecutor(max_workers=...)
PoolSizeOver == MAX_WORKERS + 1
PoolSize == MAX_WORKERS

\* a worker thread takes the oldest work item of the queue
StartTask(t) ==
    /\ futures[t].st = "pending"
    /\ \A u \in Tasks : u < t => futures[u].st # "pending"
    /\ Cardinality(Running) < PoolSize
    /\ futures' = [futures EXCEPT ![t].st = "running"]
    /\ UNCHANGED <<utility, DRY_RUN_ENV, DRY_RUN, dry_errors, MAX_WORKERS, vpcs, vpcs0, calls, mpc, ridx,
                   vpc_ids, exception_list, listing, result, run, history, budget>>

\* the first call of plan that EC2 refuses because DryRun is set; 0 if none
DryStop(plan, dry) ==
    IF dry /\ dry_errors /\ \E i \in 1..Len(plan) : Mutating(plan[i])
    THEN CHOOSE i \in 1..Len(plan) :
            Mutating(plan[i]) /\ \A j \in 1..(i - 1) : ~Mutating(plan[j])
    ELSE 0

\* the points at which a sequence of API calls can raise: 0 is nowhere
FailPoints(plan, dry) ==
    IF DryStop(plan, dry) = 0
    THEN {0} \cup (IF budget > 0 THEN 1..Len(plan) ELSE {})
    ELSE {DryStop(plan, dry)} \cup
         (IF budget > 0 THEN 1..(DryStop(plan, dry) - 1) ELSE {})

\* a call that raises for another reason than DryRun uses up the budget
Spent(plan, dry, f) == IF f = 0 \/ f = DryStop(plan, dry) THEN 0 ELSE 1

Issued(plan, f) == SubSeq(plan, 1, IF f = 0 THEN Len(plan) ELSE f)
Returned(plan, f) == SubSeq(plan, 1, IF f = 0 THEN Len(plan) ELSE f - 1)

Logged(vpc, cs, dry) ==
    {[vpc |-> vpc, kind |-> cs[i].kind, res |-> cs[i].res, op |-> cs[i].op,
      dry |-> dry] : i \in {j \in 1..Len(cs) : Mutating(cs[j])}}

\* del_vpc_all up to its first step: reading owner_id loads the VPC
DelVpcAllBegin(t) ==
    /\ futures[t].st = "running"
    /\ futures[t].pc = "begin"
    /\ \E f \in FailPoints(<<Describe("vpc")>>, FALSE) :
          /\ futures' = IF f = 0
                THEN [futures EXCEPT ![t].pc = StepOrder[1]]
                ELSE [futures EXCEPT ![t].pc = "end", ![t].st = "done",
                                     ![t].exc = "ClientError"]
          /\ budget' = IF f = 0 THEN budget ELSE budget - 1
    /\ UNCHANGED <<utility, DRY_RUN_ENV, DRY_RUN, dry_errors, MAX_WORKERS, vpcs, vpcs0, calls, mpc, ridx,
                   vpc_ids, exception_list, listing, result, run, history>>

\* one try/except block of del_vpc_all: the step runs its calls until one
\* raises; raisesAtEnd tells that the step itself raises after its calls
RunStep(t, name, plan, raisesAtEnd) ==
    /\ futures[t].st = "running"
    /\ futures[t].pc = name
    /\ \E f \in FailPoints(plan, DryRunArg) :
         LET vpc == futures[t].vpc
             failed == f # 0 \/ raisesAtEnd
         IN  /\ calls' = calls \cup Logged(vpc, Issued(plan, f), DryRunArg)
             /\ vpcs' = IF DryRunArg THEN vpcs
                        ELSE [vpcs EXCEPT ![vpc] = ApplyAll(@, Returned(plan, f))]
             /\ futures' = [futures EXCEPT
                   ![t].pc = AfterStep(name, failed),
                   ![t].attempted = Append(@, name),
                   ![t].raised = IF failed THEN @ \cup {name} ELSE @,
                   ![t].errs = IF failed
                               THEN Append(@, process_exception(vpc, name))
                               ELSE @]
             /\ budget' = budget - Spent(plan, DryRunArg, f)
    /\ UNCHANGED <<utility, DRY_RUN_ENV, DRY_RUN, dry_errors, MAX_WORKERS, vpcs0, mpc, ridx, vpc_ids,
                   exception_list, listing, result, run, history>>

DelIgw(t) == RunStep(t, "del_igw", IgwCalls(vpcs[futures[t].vpc]), FALSE)
DelSub(t) == RunStep(t, "del_sub", SubCalls(vpcs[futures[t].vpc]), FALSE)
DelRtb(t) == RunStep(t, "del_rtb", RtbCalls(vpcs[futures[t].vpc]),
                     RtbRun(vpcs[futures[t].vpc]).raised)
DelAcl(t) == RunStep(t, "del_acl", AclCalls(vpcs[futures[t].vpc]), FALSE)
DelSgp(t) == RunStep(t, "del_sgp", SgpCalls(vpcs[futures[t].vpc]), FALSE)
DelVpc(t) == RunStep(t, "del_vpc", VpcCalls(vpcs[futures[t].vpc]), FALSE)

\* del_vpc_all after its last step: raise when a step failed
DelVpcAllRaises(errs) == errs # <<>>

DelVpcAllEnd(t) ==
    /\ futures[t].st = "running"
    /\ futures[t].pc = "end"
    /\ futures' = [futures EXCEPT
          ![t].st = "done",
          ![t].exc = IF DelVpcAllRaises(futures[t].errs)
                     THEN "DeleteVPCError" ELSE "none"]
    /\ UNCHANGED <<utility, DRY_RUN_ENV, DRY_RUN, dry_errors, MAX_WORKERS, vpcs, vpcs0, calls, mpc, ridx,
                   vpc_ids, exception_list, listing, result, run, history, budget>>

----------------------------------------------------------------------------
(* Main thread *)

VpcOrder(region) == [i \in 1..Len(VpcNames) |-> <<region, VpcNames[i]>>]

\* describe_vpcs(Filters=[isDefault = true])
get_default_vpc_ids(region) ==
    SelectSeq(VpcOrder(region),
              LAMBDA id : vpcs[id].exists /\ vpcs[id].isDefault)

Unvisited == [st |-> "unvisited", ids |-> <<>>]

\* the loop over regions moves on: the next region, or out of the with block
LoopNext == IF ridx = NRegions THEN "shutdown" ELSE "list"

\* delete utility: what the except clause of the listing leaves to do
DeleteAfterListErrorAbort == "shutdown"
DeleteAfterListError == LoopNext

\* concurrently_delete_vpcs: one region's resource handle and VPC listing
DeleteListRegion ==
    /\ utility = "delete"
    /\ mpc = "list"
    /\ \/ LET ids == get_default_vpc_ids(ridx)
          IN  /\ listing' = [listing EXCEPT ![ridx] = [st |-> "ok", ids |-> ids]]
              /\ vpc_ids' = ids
              /\ mpc' = IF ids = <<>> THEN LoopNext ELSE "submit"
              /\ ridx' = IF ids = <<>> /\ ridx < NRegions THEN ridx + 1 ELSE ridx
              /\ UNCHANGED <<exception_list, budget>>
       \/ /\ budget > 0
          /\ budget' = budget - 1
          /\ listing' = [listing EXCEPT ![ridx] = [st |-> "failed", ids |-> <<>>]]
          /\ vpc_ids' = <<>>
          /\ exception_list' = Append(exception_list,
                convert_exception_to_string(ridx, "lambda_handler", ListErrorMsg))
          /\ mpc' = DeleteAfterListError
          /\ ridx' = IF mpc' = "list" THEN ridx + 1 ELSE ridx
    /\ UNCHANGED <<utility, DRY_RUN_ENV, DRY_RUN, dry_errors, MAX_WORKERS, vpcs, vpcs0, calls, futures,
                   result, run, history>>

\* concurrently_delete_vpcs: one pass of the loop over vpc_ids
DeleteSubmit ==
    /\ utility = "delete"
    /\ mpc = "submit"
    /\ vpc_ids # <<>>
    /\ \/ /\ futures' = Append(futures, NewTask(ridx, Head(vpc_ids), "begin"))
          /\ UNCHANGED <<exception_list, budget>>
       \/ /\ budget > 0
          /\ budget' = budget - 1
          /\ exception_list' = Append(exception_list,
                convert_exception_to_string(ridx, "lambda_handler", SubmitErrorMsg))
          /\ UNCHANGED futures
    /\ vpc_ids' = Tail(vpc_ids)
    /\ mpc' = IF Tail(vpc_ids) = <<>> THEN LoopNext ELSE "submit"
    /\ ridx' = IF Tail(vpc_ids) = <<>> /\ ridx < NRegions THEN ridx + 1 ELSE ridx
    /\ UNCHANGED <<utility, DRY_RUN_ENV, DRY_RUN, dry_errors, MAX_WORKERS, vpcs, vpcs0, calls, listing,
                   result, run, history>>

\* str(exc) of what fut.result() raises, for the futures that raised
RECURSIVE TaskErrors(_)
TaskErrors(fs) ==
    IF fs = <<>> THEN <<>>
    ELSE LET fut == Head(fs)
         IN  (CASE fut.exc = "DeleteVPCError" ->
                      <<DeleteVPCErrorStr(fut.vpc, fut.errs)>>
                [] fut.exc = "none" -> <<>>
                [] OTHER -> <<LoadErrorStr(fut.vpc)>>)
             \o TaskErrors(Tail(fs))

\* the end of the with block and concurrent.futures.wait(futures): the main
\* thread goes on once every future is done
FuturesWaitedNot == TRUE
FuturesWaited == AllDone

\* concurrently_delete_vpcs after the with block: wait, then collect
DeleteCollect ==
    /\ utility = "delete"
    /\ mpc = "shutdown"
    /\ FuturesWaited
    /\ exception_list' = exception_list \o TaskErrors(futures)
    /\ mpc' = "main"
    /\ UNCHANGED <<utility, DRY_RUN_ENV, DRY_RUN, dry_errors, MAX_WORKERS, vpcs, vpcs0, calls, futures,
                   ridx, vpc_ids, listing, result, run, history, budget>>

\* main: raise when concurrently_delete_vpcs returned errors
MainRaisesNever(errors) == FALSE
MainRaises(errors) == errors # <<>>

DeleteMainEnd ==
    /\ utility = "delete"
    /\ mpc = "main"
    /\ result' = IF MainRaises(exception_list) THEN "DeleteVPCError" ELSE "returned"
    /\ mpc' = "done"
    /\ UNCHANGED <<utility, DRY_RUN_ENV, DRY_RUN, dry_errors, MAX_WORKERS, vpcs, vpcs0, calls, futures,
                   ridx, vpc_ids, exception_list, listing, run, history, budget>>

----------------------------------------------------------------------------
(* Create utility *)

\* main: a region gets a create task when it lists no default VPC
NeedsCreateAlways(ids) == TRUE
NeedsCreate(ids) == ids = <<>>

\* main: the listing raised; print, sys.exit(1) (or the exception propagates)
CreateAfterListErrorContinue == LoopNext
CreateAfterListError == "shutdown"

\* main: one pass of the loop over regions
CreateExamine ==
    /\ utility = "create"
    /\ mpc = "list"
    /\ \/ LET ids == get_default_vpc_ids(ridx)
          IN  /\ listing' = [listing EXCEPT ![ridx] = [st |-> "ok", ids |-> ids]]
              /\ futures' = IF NeedsCreate(ids)
                    THEN Append(futures,
                                NewTask(ridx, <<ridx, "dflt">>, "create_vpc"))
                    ELSE futures
              /\ mpc' = LoopNext
              /\ UNCHANGED <<result, budget>>
       \/ /\ budget > 0
          /\ budget' = budget - 1
          /\ listing' = [listing EXCEPT ![ridx] = [st |-> "failed", ids |-> <<>>]]
          /\ \E e \in {"SystemExit", "ClientError"} : result' = e
          /\ mpc' = CreateAfterListError
          /\ UNCHANGED futures
    /\ ridx' = IF mpc' = "list" THEN ridx + 1 ELSE ridx
    /\ UNCHANGED <<utility, DRY_RUN_ENV, DRY_RUN, dry_errors, MAX_WORKERS, vpcs, vpcs0, calls, vpc_ids,
                   exception_list, run, history>>

\* create_vpc: the exception of the call is caught and printed
CreateVpcExc(failed) == "none"

CreateVpc(t) ==
    /\ futures[t].st = "running"
    /\ futures[t].pc = "create_vpc"
    /\ \E f \in FailPoints(<<Call("vpc", "vpc", "create")>>, DRY_RUN) :
         LET vpc == futures[t].vpc
         IN  /\ calls' = calls \cup
                   Logged(vpc, <<Call("vpc", "vpc", "create")>>, DRY_RUN)
             /\ vpcs' = IF f = 0 /\ ~DRY_RUN
                        THEN [vpcs EXCEPT ![vpc] = LayoutStd] ELSE vpcs
             /\ futures' = [futures EXCEPT
                   ![t].st = "done", ![t].pc = "end",
                   ![t].attempted = Append(@, "create_vpc"),
                   ![t].raised = IF f # 0 THEN @ \cup {"create_vpc"} ELSE @,
                   ![t].errs = IF f # 0
                               THEN Append(@, process_exception(vpc, "create_vpc"))
                               ELSE @,
                   ![t].exc = CreateVpcExc(f # 0)]
             /\ budget' = budget - Spent(<<Call("vpc", "vpc", "create")>>, DRY_RUN, f)
    /\ UNCHANGED <<utility, DRY_RUN_ENV, DRY_RUN, dry_errors, MAX_WORKERS, vpcs0, mpc, ridx, vpc_ids,
                   exception_list, listing, result, run, history>>

\* main: the with block ends when every submitted task has finished
CreateEnd ==
    /\ utility = "create"
    /\ mpc = "shutdown"
    /\ AllDone
    /\ mpc' = "done"
    /\ result' = IF result = "none" THEN "returned" ELSE result
    /\ UNCHANGED <<utility, DRY_RUN_ENV, DRY_RUN, dry_errors, MAX_WORKERS, vpcs, vpcs0, calls, futures,
                   ridx, vpc_ids, exception_list, listing, run, history, budget>>

----------------------------------------------------------------------------
(* Specifications *)

\* the utility is invoked again on the account the last run left
Rerun ==
    /\ utility \in {"delete", "create"}
    /\ mpc = "done"
    /\ run < MaxRuns
    /\ run' = run + 1
    /\ history' = Append(history, [result |-> result, tasks |-> Len(futures)])
    /\ mpc' = "list"
    /\ ridx' = 1
    /\ vpc_ids' = <<>>
    /\ exception_list' = <<>>
    /\ listing' = [r \in Regions |-> Unvisited]
    /\ futures' = <<>>
    /\ calls' = {}
    /\ vpcs0' = vpcs
    /\ result' = "none"
    /\ UNCHANGED <<utility, DRY_RUN_ENV, DRY_RUN, dry_errors, MAX_WORKERS, vpcs, budget>>

\* the accounts a run starts on: per region a default VPC or none, and a
\* non-default VPC or none
WorldsOf(defaults, customs) ==
    {w \in [VpcIds -> defaults \cup customs] :
        \A id \in VpcIds :
            IF id[2] = "dflt" THEN w[id] \in defaults ELSE w[id] \in customs}

Worlds == WorldsOf({Absent, LayoutFull}, {Absent})
QuietWorlds == WorldsOf({Absent, LayoutFull, LayoutNoMain}, {Absent, LayoutCustom})
FairWorlds == {w \in Worlds : \A r \in Regions : w[<<r, "dflt">>] = w[<<1, "dflt">>]}

DryRunEnvs == {"<unset>", "TRUE", "False"}

\* main is entered: delete_default_vpc.py with DRY_RUN from the environment,
\* or create_default_vpc.py with its --dry-run flag
InitOn(worlds, envs, faults) ==
    /\ utility \in {"delete", "create"}
    /\ \/ /\ utility = "delete"
          /\ DRY_RUN_ENV \in envs
          /\ DRY_RUN = ParseDryRun(DRY_RUN_ENV)
       \/ /\ utility = "create"
          /\ DRY_RUN_ENV = "<unset>"
          /\ DRY_RUN \in BOOLEAN
    /\ dry_errors \in (IF DRY_RUN THEN BOOLEAN ELSE {TRUE})
    /\ MAX_WORKERS \in 1..MaxPool
    /\ vpcs \in worlds
    /\ vpcs0 = vpcs
    /\ calls = {}
    /\ futures = <<>>
    /\ mpc = "list"
    /\ ridx = 1
    /\ vpc_ids = <<>>
    /\ exception_list = <<>>
    /\ listing = [r \in Regions |-> Unvisited]
    /\ result = "none"
    /\ run = 1
    /\ history = <<>>
    /\ budget = faults

Init == InitOn(Worlds, {"<unset>", "False"}, MaxFailures)

\* no API call raises but those that EC2 refuses for DryRun; more kinds of
\* account
QuietInit == InitOn(QuietWorlds, DryRunEnvs, 0)

\* the regions are alike, so that the tasks are as many as can be; DRY_RUN is
\* false in the delete utility and one API call may raise
FairInit == InitOn(FairWorlds, {"False"}, 1)

Next ==
    \/ DeleteListRegion
    \/ DeleteSubmit
    \/ DeleteCollect
    \/ DeleteMainEnd
    \/ CreateExamine
    \/ CreateEnd
    \/ Rerun
    \/ \E t \in Tasks : StartTask(t)
    \/ \E t \in Tasks : DelVpcAllBegin(t)
    \/ \E t \in Tasks : DelIgw(t)
    \/ \E t \in Tasks : DelSub(t)
    \/ \E t \in Tasks : DelRtb(t)
    \/ \E t \in Tasks : DelAcl(t)
    \/ \E t \in Tasks : DelSgp(t)
    \/ \E t \in Tasks : DelVpc(t)
    \/ \E t \in Tasks : DelVpcAllEnd(t)
    \/ \E t \in Tasks : CreateVpc(t)

Spec == Init /\ [][Next]_vars


\* the workers run, and the main thread is not held up for ever
Fairness ==
    /\ WF_vars(DeleteListRegion \/ DeleteSubmit \/ DeleteCollect \/ DeleteMainEnd
               \/ CreateExamine \/ CreateEnd)
    /\ \A t \in 1..NRegions :
          WF_vars(t \in Tasks /\
                  (StartTask(t) \/ DelVpcAllBegin(t) \/ DelIgw(t) \/ DelSub(t)
                   \/ DelRtb(t) \/ DelAcl(t) \/ DelSgp(t) \/ DelVpc(t)
                   \/ DelVpcAllEnd(t) \/ CreateVpc(t)))

FairSpec == FairInit /\ [][Next]_vars /\ Fairness

SpecQuiet == QuietInit /\ [][Next]_vars

\* del_vpc_all called on one VPC, every call of it free to raise
TeardownLayouts ==
    [exists : {TRUE}, isDefault : {TRUE}, igws : SUBSET {"igw"},
     subnets : SUBSET {"sub_az", "sub_custom"},
     rtbs : SUBSET {"rtb_main", "rtb_custom", "rtb_bare"},
     acls : {{"acl_default"}, {"acl_default", "acl_custom"}},
     sgs : {{"sg_default"}, {"sg_default", "sg_custom"}}]

TeardownInit ==
    /\ utility = "del_vpc_all"
    /\ DRY_RUN_ENV \in {"<unset>", "False"}
    /\ DRY_RUN = ParseDryRun(DRY_RUN_ENV)
    /\ dry_errors \in (IF DRY_RUN THEN BOOLEAN ELSE {TRUE})
    /\ MAX_WORKERS = 1
    /\ \E v \in TeardownLayouts :
          vpcs = [id \in VpcIds |-> IF id = <<1, "dflt">> THEN v ELSE Absent]
    /\ vpcs0 = vpcs
    /\ calls = {}
    /\ futures = <<[NewTask(1, <<1, "dflt">>, "begin") EXCEPT !.st = "running"]>>
    /\ mpc = "idle"
    /\ ridx = 1
    /\ vpc_ids = <<>>
    /\ exception_list = <<>>
    /\ listing = [r \in Regions |-> Unvisited]
    /\ result = "none"
    /\ run = 1
    /\ history = <<>>
    /\ budget = Len(StepOrder) + 1

TeardownNext ==
    \/ \E t \in Tasks : DelVpcAllBegin(t)
    \/ \E t \in Tasks : DelIgw(t)
    \/ \E t \in Tasks : DelSub(t)
    \/ \E t \in Tasks : DelRtb(t)
    \/ \E t \in Tasks : DelAcl(t)
    \/ \E t \in Tasks : DelSgp(t)
    \/ \E t \in Tasks : DelVpc(t)
    \/ \E t \in Tasks : DelVpcAllEnd(t)

SpecTeardown == TeardownInit /\ [][TeardownNext]_vars

----------------------------------------------------------------------------
(* Claims *)

prevClean == \A i \in 1..Len(history) : history[i].result = "returned"
TeardownOrder == <<"del_igw", "del_sub", "del_rtb", "del_acl", "del_sgp", "del_vpc">>
DeleteTasks == IF utility = "create" THEN {} ELSE Tasks
IsPrefix(p, q) == Len(p) <= Len(q) /\ p = SubSeq(q, 1, Len(p))
TasksOf(r) == {t \in Tasks : futures[t].region = r}
Count(seq, Test(_)) == Cardinality({i \in 1..Len(seq) : Test(seq[i])})
LoopOver == mpc \in {"shutdown", "main", "done"}

\* C1: the steps del_vpc_all has attempted are at every moment the first
\* steps of the order internet gateway, subnets, route tables, network ACLs,
\* security groups, VPC; the step a task is at is the one that follows those
\* it has attempted, and the VPC's delete is attempted only after the five
\* other steps
C1_FixedOrder ==
    \A t \in DeleteTasks :
        /\ IsPrefix(futures[t].attempted, TeardownOrder)
        /\ futures[t].pc \in {"begin", "end"} \/
           futures[t].pc = TeardownOrder[Len(futures[t].attempted) + 1]
        /\ (\E c \in calls : c.vpc = futures[t].vpc /\ c.kind = "vpc") =>
               Len(futures[t].attempted) = Len(TeardownOrder)

\* two tasks are in the middle of their steps and a third step has failed
C1_Witness ==
    /\ utility = "delete"
    /\ \E t, u \in Tasks :
          /\ t # u
          /\ futures[t].attempted = TeardownOrder
          /\ futures[t].raised # {}
          /\ Len(futures[u].attempted) = 2

\* C2: a del_vpc_all that reached its steps and has ended attempted each of
\* the six steps exactly once whichever of them failed, raised
\* DeleteVPCError exactly when a step failed, and recorded one error per
\* failed step, in step order
C2_AllStepsAttempted ==
    \A t \in DeleteTasks :
        (futures[t].st = "done" /\ futures[t].exc # "ClientError") =>
            /\ futures[t].attempted = TeardownOrder
            /\ (futures[t].exc = "DeleteVPCError") <=> (futures[t].raised # {})
            /\ [i \in 1..Len(futures[t].errs) |-> futures[t].errs[i].method]
                 = SelectSeq(TeardownOrder, LAMBDA n : n \in futures[t].raised)

\* every one of the six steps failed, and the task still went through all
C2_Witness ==
    \E t \in DeleteTasks :
        /\ futures[t].st = "done"
        /\ futures[t].raised = {TeardownOrder[i] : i \in 1..Len(TeardownOrder)}
        /\ futures[t].exc = "DeleteVPCError"

ListErrors(r) ==
    Count(exception_list,
          LAMBDA e : e.region = r /\ e.method = "lambda_handler"
                     /\ e.msg = ListErrorMsg)
SubmitErrors(r) ==
    Count(exception_list,
          LAMBDA e : e.region = r /\ e.method = "lambda_handler"
                     /\ e.msg = SubmitErrorMsg)

\* C3: once the delete utility's loop over the regions is over, every region
\* has been visited, every default VPC of a region whose listing succeeded
\* has been submitted (a task, or the error of its submission), and every
\* region whose listing failed has exactly one error entry
C3_ListFailureContinues ==
    (utility = "delete" /\ LoopOver) =>
        \A r \in Regions :
            /\ listing[r].st # "unvisited"
            /\ listing[r].st = "ok" =>
                  /\ listing[r].ids = SelectSeq(VpcOrder(r),
                        LAMBDA id : vpcs0[id].exists /\ vpcs0[id].isDefault)
                  /\ Cardinality(TasksOf(r)) + SubmitErrors(r) = Len(listing[r].ids)
                  /\ \A i \in 1..Len(listing[r].ids) :
                        SubmitErrors(r) = 0 =>
                            \E t \in TasksOf(r) : futures[t].vpc = listing[r].ids[i]
            /\ ListErrors(r) = (IF listing[r].st = "failed" THEN 1 ELSE 0)

\* the listing of the first region failed and the default VPC of a later
\* region was torn down all the same
C3_Witness ==
    /\ utility = "delete"
    /\ mpc = "done"
    /\ listing[1].st = "failed"
    /\ \E t \in Tasks : futures[t].region > 1 /\ futures[t].st = "done"


HadDefaultVpc(r) == \E id \in VpcIds : id[1] = r /\ vpcs0[id].exists /\ vpcs0[id].isDefault

\* C4 as stated: the create utility examines every region of the list even
\* when the listing of one of them failed
C4_Original ==
    (utility = "create" /\ mpc = "done") =>
        \A r \in Regions :
            /\ listing[r].st # "unvisited"
            /\ ~HadDefaultVpc(r) /\ listing[r].st = "ok" => TasksOf(r) # {}

\* C4 as amended: in the create utility a failed listing ends the loop over
\* the regions: no later region is examined or given a create task, the
\* creates submitted before it still run to their end, and main does not
\* return normally
C4_ListFailureAborts ==
    utility = "create" =>
        \A r \in Regions :
            listing[r].st = "failed" =>
                /\ \A q \in Regions :
                      q > r => listing[q].st = "unvisited" /\ TasksOf(q) = {}
                /\ TasksOf(r) = {}
                /\ mpc \in {"shutdown", "done"}
                /\ result \in {"SystemExit", "ClientError"}
                /\ mpc = "done" => AllDone

\* the listing of the first region failed, the run is over and a later
\* region was never looked at
C4_Witness ==
    /\ utility = "create"
    /\ mpc = "done"
    /\ listing[1].st = "failed"
    /\ listing[NRegions].st = "unvisited"
    /\ ~HadDefaultVpc(NRegions)

ErrorOccurred ==
    \/ \E r \in Regions : listing[r].st = "failed"
    \/ \E r \in Regions : Cardinality(TasksOf(r)) < Len(listing[r].ids)
    \/ \E t \in Tasks : futures[t].raised # {} \/ futures[t].exc = "ClientError"

\* C5: the delete utility's main raises DeleteVPCError exactly when an error
\* occurred in the run (a listing, a submission, a task), returns normally
\* otherwise, and every error a worker recorded is in the final list
C5_RaisesIffError ==
    (utility = "delete" /\ mpc = "done") =>
        /\ result \in {"DeleteVPCError", "returned"}
        /\ (result = "DeleteVPCError") <=> ErrorOccurred
        /\ \A t \in Tasks :
              /\ \A i \in 1..Len(futures[t].errs) :
                    \E k \in 1..Len(exception_list) :
                        /\ exception_list[k].vpc = futures[t].vpc
                        /\ \E j \in 1..Len(exception_list[k].inner) :
                              exception_list[k].inner[j] = futures[t].errs[i]
              /\ \A n \in futures[t].raised :
                    \E i \in 1..Len(futures[t].errs) : futures[t].errs[i].method = n
              /\ futures[t].exc = "ClientError" =>
                    \E k \in 1..Len(exception_list) :
                        exception_list[k] = LoadErrorStr(futures[t].vpc)

\* main raised because a teardown step failed in a worker
C5_Witness ==
    /\ utility = "delete"
    /\ mpc = "done"
    /\ result = "DeleteVPCError"
    /\ \A r \in Regions : listing[r].st = "ok"
    /\ \E t \in Tasks : futures[t].raised # {}

DefaultVpcs0 == {id \in VpcIds : vpcs0[id].exists /\ vpcs0[id].isDefault}
Called(id, kind, res, op) ==
    \E c \in calls : c.vpc = id /\ c.kind = kind /\ c.res = res /\ c.op = op
     /\ ~c.dry
CleanLiveDelete ==
    utility = "delete" /\ ~DRY_RUN /\ mpc = "done" /\ result = "returned"

\* C6 as stated: a live run without failures issues a delete for every
\* default VPC and for every internet gateway, subnet, route table, network
\* ACL and security group of it
C6_Original ==
    CleanLiveDelete =>
        \A id \in DefaultVpcs0 :
            /\ Called(id, "vpc", "vpc", "delete")
            /\ \A g \in vpcs0[id].igws : Called(id, "igw", g, "delete")
            /\ \A n \in vpcs0[id].subnets : Called(id, "subnet", n, "delete")
            /\ \A x \in vpcs0[id].rtbs : Called(id, "rtb", x, "delete")
            /\ \A a \in vpcs0[id].acls : Called(id, "acl", a, "delete")
            /\ \A g \in vpcs0[id].sgs : Called(id, "sg", g, "delete")

HasMain(rtbs) ==
    \E x \in rtbs : associations_attribute(x) # <<>>
                    /\ associations_attribute(x)[1].Main

\* C6 as amended: a live run without failures issues a delete for every
\* default VPC, detaches and deletes every internet gateway of it, and
\* deletes exactly its default-for-AZ subnets, its network ACLs other than
\* the default one and its security groups other than the one named
\* default; its route tables are deleted exactly when none of them carries
\* a main association
C6_DeletesNonDefaultResources ==
    CleanLiveDelete =>
        \A id \in DefaultVpcs0 :
            /\ Called(id, "vpc", "vpc", "delete")
            /\ \A g \in vpcs0[id].igws :
                  Called(id, "igw", g, "detach") /\ Called(id, "igw", g, "delete")
            /\ \A n \in vpcs0[id].subnets :
                  Called(id, "subnet", n, "delete") <=> default_for_az(n)
            /\ \A x \in vpcs0[id].rtbs :
                  Called(id, "rtb", x, "delete") <=> ~HasMain(vpcs0[id].rtbs)
            /\ \A a \in vpcs0[id].acls :
                  Called(id, "acl", a, "delete") <=> ~is_default(a)
            /\ \A g \in vpcs0[id].sgs :
                  Called(id, "sg", g, "delete") <=> group_name(g) # "default"

\* a live run without failures has torn down a default VPC that had
\* resources of every kind, and another whose route tables had no main one
C6_Witness ==
    /\ CleanLiveDelete
    /\ \E id \in DefaultVpcs0 : vpcs0[id] = LayoutFull
    /\ \E id \in DefaultVpcs0 : vpcs0[id] = LayoutNoMain


\* C7 as stated: when the create utility has ended, every region of the list
\* without a default VPC has exactly one create task, every region with one
\* has none, and no create task ended with an exception
C7_Original ==
    (utility = "create" /\ mpc = "done") =>
        /\ \A r \in Regions :
              Cardinality(TasksOf(r)) = (IF HadDefaultVpc(r) THEN 0 ELSE 1)
        /\ \A t \in Tasks : futures[t].st = "done" /\ futures[t].exc = "none"

\* C7 as amended: the create utility submits exactly one create task for
\* every region it has examined and found without a default VPC, and none
\* for any other region (one with a default VPC, one whose listing failed,
\* one the loop never reached after a failed listing); a failure inside a
\* create task is caught in the task, and when main ends every submitted
\* task has finished without an exception
C7_OneCreatePerExaminedRegion ==
    utility = "create" =>
        /\ \A r \in Regions :
              Cardinality(TasksOf(r)) =
                 (IF listing[r].st = "ok" /\ ~HadDefaultVpc(r) THEN 1 ELSE 0)
        /\ \A t \in Tasks : futures[t].exc = "none"
        /\ mpc = "done" => AllDone

\* the create of one region failed inside its task and the create of
\* another region went through
C7_Witness ==
    /\ utility = "create"
    /\ mpc = "done"
    /\ result = "returned"
    /\ \E t, u \in Tasks :
          /\ futures[t].raised # {}
          /\ futures[u].raised = {}
          /\ ~DRY_RUN /\ vpcs[futures[u].vpc].exists

\* C8: with DRY_RUN true, which it is when the environment variable is not
\* set, every mutating call of the delete utility carries the dry-run flag
\* and the account is at every moment what it was when the run started
C8_DryRunChangesNothing ==
    /\ (utility # "create" /\ DRY_RUN_ENV = "<unset>") => DRY_RUN
    /\ (utility # "create" /\ DRY_RUN) =>
          /\ vpcs = vpcs0
          /\ \A c \in calls : c.dry

\* a dry run with the variable unset has gone through the teardown of two
\* VPCs, down to the delete of the VPC itself
C8_Witness ==
    /\ utility = "delete"
    /\ DRY_RUN_ENV = "<unset>"
    /\ mpc = "done"
    /\ Cardinality({c \in calls : c.kind = "vpc" /\ c.op = "delete"}) > 1
    /\ \E c \in calls : c.op = "detach"

Pending(i) == i \in Tasks /\ futures[i].st = "pending"
Started(i) == i \in Tasks /\ futures[i].st # "pending"

\* C9: at no moment do more than MAX_WORKERS (max_workers) tasks execute,
\* and a task that waits in the queue is eventually executed
C9_BoundedPool ==
    /\ [](Cardinality(Running) <= MAX_WORKERS)
    /\ \A i \in 1..NRegions : Pending(i) ~> Started(i)

\* the pool is full and a submitted task waits
C9_Witness ==
    /\ Cardinality(Running) = MAX_WORKERS
    /\ \E i \in Tasks : Pending(i)

\* C10: a run of the delete utility that follows live runs that all
\* returned normally finds no default VPC in the regions it lists, submits
\* no task and issues no call, and returns normally when its listings do
C10_SecondRunFindsNothing ==
    (utility = "delete" /\ ~DRY_RUN /\ run > 1 /\ prevClean) =>
        /\ \A id \in VpcIds : ~(vpcs[id].exists /\ vpcs[id].isDefault)
        /\ \A r \in Regions : listing[r].st = "ok" => listing[r].ids = <<>>
        /\ futures = <<>>
        /\ calls = {}
        /\ (mpc = "done" /\ \A r \in Regions : listing[r].st = "ok") =>
              result = "returned"

\* the second run has ended after a first run that tore down two VPCs
C10_Witness ==
    /\ utility = "delete"
    /\ ~DRY_RUN
    /\ run > 1
    /\ prevClean
    /\ mpc = "done"
    /\ result = "returned"
    /\ \A r \in Regions : listing[r].st = "ok"
    /\ history[1].tasks = NRegions


\* del_rtb has run in a live del_vpc_all in which no API call raised
RtbStepDone ==
    /\ utility = "del_vpc_all"
    /\ ~DRY_RUN
    /\ budget = Len(StepOrder) + 1
    /\ \E i \in 1..Len(futures[1].attempted) : futures[1].attempted[i] = "del_rtb"

IsMainRtb(x) ==
    associations_attribute(x) # <<>> /\ associations_attribute(x)[1].Main

\* C11 as stated: once del_rtb has run with no API call raising, the step
\* has not failed and a route table of the VPC has received a delete call
\* exactly when it is not the main route table
C11_Original ==
    RtbStepDone =>
        /\ "del_rtb" \notin futures[1].raised
        /\ \A x \in vpcs0[futures[1].vpc].rtbs :
              Called(futures[1].vpc, "rtb", x, "delete") <=> ~IsMainRtb(x)

\* C11, what del_rtb does: a route table without associations makes the
\* step fail before any delete call; otherwise the step does not fail and
\* deletes every route table when none of them is the main one and none at
\* all when one of them is
C11_DelRtbAsCoded ==
    RtbStepDone =>
        LET id == futures[1].vpc
            rtbs == vpcs0[id].rtbs
        IN  IF \E x \in rtbs : associations_attribute(x) = <<>>
            THEN /\ "del_rtb" \in futures[1].raised
                 /\ \A x \in rtbs : ~Called(id, "rtb", x, "delete")
            ELSE /\ "del_rtb" \notin futures[1].raised
                 /\ \A x \in rtbs :
                       Called(id, "rtb", x, "delete") <=> ~HasMain(rtbs)

\* del_rtb has run on a VPC with the main route table and another one, and
\* the other one has received no delete call
C11_Witness ==
    /\ RtbStepDone
    /\ vpcs0[futures[1].vpc].rtbs = {"rtb_main", "rtb_custom"}
    /\ ~Called(futures[1].vpc, "rtb", "rtb_custom", "delete")

\* del_rtb has failed on a VPC whose only route table has no association
C11_BareFails ==
    /\ RtbStepDone
    /\ vpcs0[futures[1].vpc].rtbs = {"rtb_bare"}
    /\ "del_rtb" \in futures[1].raised


\* the entries the main thread appends in its loop, region after region
RECURSIVE MainThreadErrors(_)
MainThreadErrors(r) ==
    IF r > NRegions THEN <<>>
    ELSE (IF listing[r].st = "failed"
          THEN <<convert_exception_to_string(r, "lambda_handler", ListErrorMsg)>>
          ELSE [i \in 1..(Len(listing[r].ids) - Cardinality(TasksOf(r))) |->
                  convert_exception_to_string(r, "lambda_handler", SubmitErrorMsg)])
         \o MainThreadErrors(r + 1)

\* the errors of the steps of task t that raised, in the order of the steps
StepErrors(t) ==
    LET failed == SelectSeq(TeardownOrder, LAMBDA n : n \in futures[t].raised)
    IN  [i \in 1..Len(failed) |-> process_exception(futures[t].vpc, failed[i])]

\* the entries of the tasks from the t-th on, in the order of submission
RECURSIVE FailedTaskErrors(_)
FailedTaskErrors(t) ==
    IF t > Len(futures) THEN <<>>
    ELSE (IF futures[t].exc = "ClientError"
          THEN <<LoadErrorStr(futures[t].vpc)>>
          ELSE IF futures[t].raised # {}
          THEN <<DeleteVPCErrorStr(futures[t].vpc, StepErrors(t))>>
          ELSE <<>>)
         \o FailedTaskErrors(t + 1)

\* C12: when concurrently_delete_vpcs has returned, every submitted task
\* has finished and the returned list is one entry per failed listing and
\* per failed submission, in the order of the main thread's loop, followed
\* by one entry per failed task in the order of submission: a function of
\* what failed alone, whatever the order in which the workers ran and ended
C12_FanInDeterministic ==
    (utility = "delete" /\ mpc \in {"main", "done"}) =>
        /\ AllDone
        /\ exception_list = MainThreadErrors(1) \o FailedTaskErrors(1)
        /\ Len(exception_list) =
              Cardinality({r \in Regions : listing[r].st = "failed"})
              + Cardinality({id \in VpcIds :
                    /\ \E i \in 1..Len(listing[id[1]].ids) :
                          listing[id[1]].ids[i] = id
                    /\ \A t \in Tasks : futures[t].vpc # id})
              + Cardinality({t \in Tasks : futures[t].exc # "none"})

\* the task of the first region failed, the listing of the second region
\* failed after that task was submitted, and the returned list has the
\* listing's error before the task's
C12_Witness ==
    /\ utility = "delete"
    /\ mpc = "done"
    /\ Len(exception_list) = 2
    /\ exception_list[1].method = "lambda_handler"
    /\ exception_list[1].region = 2
    /\ exception_list[2].method = "del_vpc_all"
    /\ exception_list[2].region = 1
    /\ Len(exception_list[2].inner) > 1

=============================================================================
